---- MODULE Spec2Model ----
(***************************************************************************)
(* A model of the retrieval-augmented scoring pipeline of the KOICA        *)
(* appraisal tool: the chunker (_split_text), the vector store             *)
(* (SimpleVectorStore), the evidence record (AuditEvidence), the two       *)
(* section scorers and the orchestrator (conduct_audit).                   *)
(*                                                                         *)
(* Texts are sequences of one-character strings.  A percentage is held in  *)
(* tenths (83.3 is 833), which is exact for a value rounded to 1 decimal.  *)
(***************************************************************************)
EXTENDS Integers, Sequences, FiniteSets, TLC

VARIABLES
    \* ---- _split_text, one call (core/auditor.py 146-173)
    sp_pc, sp_text, sp_chunk_size, sp_overlap, sp_start, sp_chunks,
    \* ---- AuditEvidence(...), one construction (core/models.py 25-40)
    ev_pc, ev_args, ev_out,
    \* ---- _create_audit_evidence(result, max_score), one call (core/auditor.py 416-437)
    ce_pc, ce_args, ce_out,
    \* ---- SimpleVectorStore object and the add_texts frame
    chunks, embeddings, at_pc, at_i, failed_count, at_calls,
    \* ---- the time.sleep taken in the last pass of the loop of add_texts
    at_pause,
    \* ---- the last similarity_search call on the store, and a repetition of it
    search,
    \* ---- the last get_stats call on the store
    stats,
    \* ---- conduct_audit, one run
    pc, full_text, vector_store, policy_call, impl_call,
    policy_result, impl_result, results,
    \* ---- the sections the generative model was invoked for, in call order
    llm_log,
    \* ---- several conduct_audit invocations under way at once: the store
    \* ---- objects constructed so far, and each invocation's locals
    heap, sess,
    \* ---- extract_text_from_pdf, one call (core/auditor.py 77-103)
    pdf_pc, pdf_opens, pdf_pages, pdf_i, pdf_text

splitVars == <<sp_pc, sp_text, sp_chunk_size, sp_overlap, sp_start, sp_chunks>>
evVars    == <<ev_pc, ev_args, ev_out, ce_pc, ce_args, ce_out>>
storeVars == <<chunks, embeddings, at_pc, at_i, failed_count, at_calls, at_pause, search,
               stats>>
auditVars == <<pc, full_text, vector_store, policy_call, impl_call,
               policy_result, impl_result, results, llm_log>>
sessionVars == <<heap, sess>>
pdfVars   == <<pdf_pc, pdf_opens, pdf_pages, pdf_i, pdf_text>>
vars      == <<splitVars, evVars, storeVars, auditVars, sessionVars, pdfVars>>

-----------------------------------------------------------------------------
(* Bounds of the model *)

\* longest text handed to _split_text in SpecSplit
MaxSplitLen == 3
\* largest chunk_size and overlap tried in SpecSplit
MaxSplitArg == 3
\* longest document text of an audit run
MaxTextLen == 5
\* most texts in one add_texts call of the store harness
MaxTexts == 2
\* most add_texts calls on one store in the store harness
MaxCalls == 2
\* most embeddings the store harness lets one store come to hold
MaxStored == 3
\* largest score / max_score argument tried in SpecEvidence
MaxEvArg == 3
\* longest text of the audit runs followed to their end
MaxLiveTextLen == 2
\* largest k of a similarity_search call of the store harness
MaxK == 2
\* conduct_audit invocations under way at once
MaxAudits == 2
\* most pages of a document given to extract_text_from_pdf
MaxPages == 3
\* longest document text of an invocation that runs beside others
MaxSessionTextLen == 3

(* RAGConfig values, scaled down so that every case (several chunks, more   *)
(* chunks than top-k, a text longer than the context cap) happens on texts *)
(* of MaxTextLen characters.  config.py has 1500, 200, 15, 35000, 768.     *)
CHUNK_SIZE == 3
CHUNK_OVERLAP == 1
TOP_K_DOCUMENTS == 2
MAX_CONTEXT_LENGTH == 4
EMBEDDING_DIMENSION == 2

(* APIConfig.RATE_LIMIT_BATCH_SIZE, scaled down so that a batch ends within *)
(* the chunks of one add_texts call.  config.py has 10.                     *)
RATE_LIMIT_BATCH_SIZE == 2

(* AuditConfig, as in config.py *)
POLICY_ALIGNMENT_MAX_SCORE == 30
IMPLEMENTATION_READINESS_MAX_SCORE == 70
TOTAL_MAX_SCORE == 100

-----------------------------------------------------------------------------
(* Python helpers *)

Min(a, b) == IF a < b THEN a ELSE b
Max(a, b) == IF a > b THEN a ELSE b

\* Python's normalisation of one slice bound against a length.
SliceBound(x, n) == IF x < 0 THEN Max(x + n, 0) ELSE Min(x, n)

\* s[a:b] (0-based, end exclusive, negative bounds counted from the end).
PySlice(s, a, b) ==
    LET lo == SliceBound(a, Len(s))
        hi == SliceBound(b, Len(s))
    IN  IF lo < hi THEN SubSeq(s, lo + 1, hi) ELSE << >>

\* s[:n]
Prefix(s, n) == PySlice(s, 0, n)

\* all sequences over S of length 0..n
SeqsUpTo(S, n) == UNION { [1..k -> S] : k \in 0..n }

\* the first n characters of a fixed alphabet: the document texts of the audit runs
Alphabet == <<"a", "b", "c", "d", "e", "f", "g", "h">>
DocText(n) == SubSeq(Alphabet, 1, n)

-----------------------------------------------------------------------------
(* _split_text: the loop, one iteration at a time *)

\* cap on the iterations explored when the loop does not advance
LoopCap == MaxSplitLen + MaxTextLen + 2

\* `start = end - overlap` with `end = start + chunk_size`
MutNextStartNoOverlap(start, chunk_size, overlap) == start + chunk_size
NextStart(start, chunk_size, overlap) == (start + chunk_size) - overlap

\* `chunk = text[start:end]`
ChunkAt(text, start, chunk_size) == PySlice(text, start, start + chunk_size)

\* the whole call, as create_vector_store uses it (with overlap < chunk_size,
\* where the loop ends)
RECURSIVE SplitFrom(_, _, _, _, _)
SplitFrom(text, start, chunk_size, overlap, acc) ==
    IF start < Len(text)
    THEN SplitFrom(text, NextStart(start, chunk_size, overlap), chunk_size, overlap,
                   Append(acc, ChunkAt(text, start, chunk_size)))
    ELSE acc
SplitText(text, chunk_size, overlap) == SplitFrom(text, 0, chunk_size, overlap, << >>)

SplitIterate ==
    /\ sp_pc = "loop"
    /\ sp_start < Len(sp_text)
    /\ Len(sp_chunks) < LoopCap
    /\ sp_chunks' = Append(sp_chunks, ChunkAt(sp_text, sp_start, sp_chunk_size))
    /\ sp_start' = NextStart(sp_start, sp_chunk_size, sp_overlap)
    /\ UNCHANGED <<sp_pc, sp_text, sp_chunk_size, sp_overlap>>
    /\ UNCHANGED <<evVars, storeVars, auditVars, sessionVars, pdfVars>>

SplitReturn ==
    /\ sp_pc = "loop"
    /\ ~(sp_start < Len(sp_text))
    /\ sp_pc' = "done"
    /\ UNCHANGED <<sp_text, sp_chunk_size, sp_overlap, sp_start, sp_chunks>>
    /\ UNCHANGED <<evVars, storeVars, auditVars, sessionVars, pdfVars>>

-----------------------------------------------------------------------------
(* AuditEvidence (core/models.py) *)

NoExc == [type |-> "none", msg |-> << >>]
NoObj == [score |-> 0, max_score |-> 0, percentage |-> 0,
          detailed_scores |-> << >>, reasoning |-> <<"(no object)">>,
          strengths |-> << >>, weaknesses |-> << >>, recommendations |-> << >>]
Raise(type, msg) == [raised |-> TRUE, exc |-> [type |-> type, msg |-> msg], obj |-> NoObj]
Return(obj) == [raised |-> FALSE, exc |-> NoExc, obj |-> obj]

\* 100, the upper limit of a percentage, in tenths
PCT_LIMIT == 100 * 10

\* __post_init__: the exception it raises, or NoExc
MutPostInitNoUpper(score, max_score, percentage) ==
    IF score < 0
    THEN [type |-> "ValueError",
          msg |-> <<"score must be between 0 and ", ToString(max_score), ".">>]
    ELSE IF percentage < 0 \/ percentage > PCT_LIMIT
    THEN [type |-> "ValueError", msg |-> <<"percentage must be between 0 and 100">>]
    ELSE NoExc
PostInit(score, max_score, percentage) ==
    IF score < 0 \/ score > max_score
    THEN [type |-> "ValueError",
          msg |-> <<"score must be between 0 and ", ToString(max_score), ".">>]
    ELSE IF percentage < 0 \/ percentage > PCT_LIMIT
    THEN [type |-> "ValueError", msg |-> <<"percentage must be between 0 and 100">>]
    ELSE NoExc

\* AuditEvidence(score=..., ...): the dataclass constructor, then __post_init__
AuditEvidenceNew(score, max_score, percentage, detailed_scores, reasoning, strengths, weaknesses, recommendations) ==
    LET e == PostInit(score, max_score, percentage)
    IN  IF e.type # "none"
        THEN Raise(e.type, e.msg)
        ELSE Return([score |-> score, max_score |-> max_score,
                     percentage |-> percentage,
                     detailed_scores |-> detailed_scores, reasoning |-> reasoning,
                     strengths |-> strengths, weaknesses |-> weaknesses,
                     recommendations |-> recommendations])

\* AuditEvidence.create_failed(max_score, error_message)
MutCreateFailedZeroMax(max_score, error_message) ==
    AuditEvidenceNew(0, 0, 0, << >>,
                     <<"analysis failed: ">> \o error_message,
                     << >>, << >>, << >>)
CreateFailed(max_score, error_message) ==
    AuditEvidenceNew(0, max_score, 0, << >>,
                     <<"analysis failed: ">> \o error_message,
                     << >>, << >>, << >>)

\* percentages tried by the construction harness, in tenths
PctSamples == {0 - 1, 0, 500, PCT_LIMIT, PCT_LIMIT + 1}

EvConstruct ==
    /\ ev_pc = "args"
    /\ ev_out' = AuditEvidenceNew(ev_args.score, ev_args.max_score,
                                  ev_args.percentage, <<"ds">>, <<"why">>,
                                  <<"s">>, <<"w">>, <<"r">>)
    /\ ev_pc' = "done"
    /\ UNCHANGED <<ev_args, ce_pc, ce_args, ce_out>>
    /\ UNCHANGED <<splitVars, storeVars, auditVars, sessionVars, pdfVars>>

-----------------------------------------------------------------------------
(* SimpleVectorStore (core/vector_store.py) *)

\* [0.0] * RAGConfig.EMBEDDING_DIMENSION
ZeroVector == [d \in 1..EMBEDDING_DIMENSION |-> 0]
UnitVector(i) == [d \in 1..EMBEDDING_DIMENSION |-> IF d = i THEN 1 ELSE 0]
Negated(v) == [d \in 1..EMBEDDING_DIMENSION |-> 0 - v[d]]

\* The vectors the embedding provider answers with: unit vectors, for which the
\* floating-point norm and dot product are exact.
ProviderVectors ==
    { UnitVector(1), UnitVector(EMBEDDING_DIMENSION), Negated(UnitVector(1)) }

\* A list of another length than the configured dimension.  Neither
\* _extract_embedding nor _extract_query_embedding looks at the length.
ShortVector == [d \in 1..(EMBEDDING_DIMENSION - 1) |-> IF d = 1 THEN 1 ELSE 0]

\* What genai.embed_content does on one call: returns a mapping with an
\* 'embedding' field, a bare list, something else, or raises.
EmbedResults ==
    [shape : {"dict", "list"}, vec : ProviderVectors]
      \cup {[shape |-> "dict", vec |-> ShortVector]}
      \cup {[shape |-> "other", vec |-> ZeroVector], [shape |-> "raise", vec |-> ZeroVector]}

\* What the provider does on the query of a section scorer in the audit runs.
QueryResults ==
    { [shape |-> "dict", vec |-> UnitVector(1)],
      [shape |-> "other", vec |-> ZeroVector], [shape |-> "raise", vec |-> ZeroVector] }

\* _extract_embedding
ExtractEmbedding(result) ==
    IF result.shape = "dict" THEN result.vec
    ELSE IF result.shape = "list" THEN result.vec
    ELSE ZeroVector

\* _extract_query_embedding: the vector, or None
ExtractQueryEmbedding(result) ==
    IF result.shape = "dict" THEN [none |-> FALSE, vec |-> result.vec]
    ELSE IF result.shape = "list" THEN [none |-> FALSE, vec |-> result.vec]
    ELSE [none |-> TRUE, vec |-> ZeroVector]

\* One pass of the loop body of add_texts on chunk i, try and except together.
\* after_raises: a call that follows the append inside the try block raises.
AddTextsBody(embs, failed, result, after_raises) ==
    IF result.shape = "raise"
    THEN [embeddings |-> Append(embs, ZeroVector), failed |-> failed + 1]
    ELSE LET stored == Append(embs, ExtractEmbedding(result))
         IN  IF after_raises
             THEN [embeddings |-> Append(stored, ZeroVector), failed |-> failed + 1]
             ELSE [embeddings |-> stored, failed |-> failed]

\* Whether a call that follows the append inside the try block
\* (progress_bar.progress, time.sleep) raises: each of them returns or raises.
AfterRaises == BOOLEAN

\* The rate limiting of pass i (1-based) of the loop: the time.sleep calls sit
\* in the try block after the embedding call and the append, so they are
\* reached only when the embedding call returned.
PauseAfter(i, result, after_raises) ==
    IF result.shape = "raise" \/ after_raises THEN "none"
    ELSE IF i % RATE_LIMIT_BATCH_SIZE = 0 THEN "long"
    ELSE "short"

\* add_texts, from its entry to the loop: `self.chunks = texts`, failed_count = 0.
\* self.embeddings is not assigned here.
AddTextsEnter(texts) ==
    /\ chunks' = texts
    /\ at_i' = 0
    /\ failed_count' = 0
    /\ at_pc' = "loop"
    /\ at_calls' = at_calls + 1
    /\ at_pause' = "none"

\* One pass of the loop.  The store harness follows the passes in which a
\* call after the append raises while a fresh store is populated; the other
\* runs follow those in which the progress and pause calls return.
AddTextsStep ==
    /\ at_pc = "loop"
    /\ at_i < Len(chunks)
    /\ \E result \in EmbedResults, after_raises \in AfterRaises :
         LET b == AddTextsBody(embeddings, failed_count, result, after_raises)
         IN  /\ after_raises => /\ pc = "off" /\ at_calls = 1
                                 /\ Len(b.embeddings) <= MaxStored
             /\ embeddings' = b.embeddings
             /\ failed_count' = b.failed
             /\ at_pause' = PauseAfter(at_i + 1, result, after_raises)
    /\ at_i' = at_i + 1
    /\ UNCHANGED <<chunks, at_pc, at_calls, search, stats>>
    /\ UNCHANGED <<splitVars, evVars, auditVars, sessionVars, pdfVars>>

AddTextsReturn ==
    /\ at_pc = "loop"
    /\ at_i = Len(chunks)
    /\ at_pc' = "returned"
    /\ UNCHANGED <<chunks, embeddings, at_i, failed_count, at_calls, at_pause, search, stats>>
    /\ UNCHANGED <<splitVars, evVars, auditVars, sessionVars, pdfVars>>

\* the lists of texts of the store harness: the first n of a fixed list of chunks
HarnessChunks == <<DocText(2), SubSeq(Alphabet, 2, 3), SubSeq(Alphabet, 3, 4),
                   SubSeq(Alphabet, 4, 5), SubSeq(Alphabet, 5, 6)>>
HarnessTexts == { SubSeq(HarnessChunks, 1, n) : n \in 0..Min(MaxTexts, Len(HarnessChunks)) }
              \cup { SubSeq(HarnessChunks, 2, n) : n \in 2..Min(MaxTexts + 1, Len(HarnessChunks)) }

\* a caller of the class calls add_texts on a store that is not being
\* populated; the harness populates the store before it searches it
StoreAddTexts ==
    /\ pc = "off"
    /\ at_pc \in {"idle", "returned"}
    /\ ~search.called /\ ~stats.called
    /\ at_calls < MaxCalls
    /\ \E texts \in HarnessTexts :
         /\ Len(embeddings) + Len(texts) <= MaxStored
         /\ AddTextsEnter(texts)
    /\ UNCHANGED <<embeddings, search, stats>>
    /\ UNCHANGED <<splitVars, evVars, auditVars, sessionVars, pdfVars>>

(* similarity_search *)

\* np.dot of two lists of one length
\* The one element of a one-element set.  { e : x \in {v} } is e with x
\* standing for the value of v.
Only(S) == CHOOSE x \in S : TRUE

Dot(a, b) ==
    LET RECURSIVE S(_)
        S(d) == IF d = 0 THEN 0 ELSE a[d] * b[d] + S(d - 1)
    IN  S(Len(a))

\* _cosine_similarity.  The value is kept as the exact fraction
\* sign(dot) * dot^2 / (|a|^2 * |b|^2), which orders as the cosine does.
\* np.dot raises on lists of different lengths; the except clause of
\* _cosine_similarity turns that into 0.0.
CosineSimilarity(a, b) ==
    LET n1 == Dot(a, a)
        n2 == Dot(b, b)
    IN  IF n1 = 0 \/ n2 = 0
        THEN [num |-> 0, den |-> 1]
        ELSE IF Len(a) # Len(b)
        THEN [num |-> 0, den |-> 1]
        ELSE LET d == Dot(a, b)
             IN  [num |-> IF d < 0 THEN 0 - d * d ELSE d * d, den |-> n1 * n2]

SimGreater(x, y) == x.num * y.den > y.num * x.den

\* `similarities.sort(key=..., reverse=True)`: a stable sort, descending.
\* The result is the sequence of indices (0-based) in sorted order.
SortedIndices(sims, left) ==
    LET Sorted[rest \in SUBSET left] ==
            IF rest = {} THEN << >>
            ELSE LET best == CHOOSE i \in rest :
                                \A j \in rest \ {i} :
                                    \/ SimGreater(sims[i + 1], sims[j + 1])
                                    \/ (~SimGreater(sims[j + 1], sims[i + 1]) /\ i < j)
                 IN  <<best>> \o Sorted[rest \ {best}]
    IN  Sorted[left]

\* the indices (0-based) of `self.chunks[:k]`
MutFirstIndicesAtMostOne(cs, k) == [n \in 1..Min(Min(Max(k, 0), 1), Len(cs)) |-> n - 1]
FirstIndices(cs, k) == [n \in 1..Min(Max(k, 0), Len(cs)) |-> n - 1]

\* similarity_search(query, k), given what the provider does on the query:
\* the indices (0-based) of the chunks it returns, in the order of the result
SearchIndices(cs, embs, qresult, k) ==
    IF embs = << >> THEN << >>
    ELSE IF qresult.shape = "raise" THEN FirstIndices(cs, k)
    ELSE LET q == ExtractQueryEmbedding(qresult)
         IN  IF q.none \/ q.vec = << >> THEN FirstIndices(cs, k)
             ELSE LET sims == [i \in 1..Len(embs) |-> CosineSimilarity(q.vec, embs[i])]
                  IN  Only({ IF \E n \in 1..Len(top_k) : top_k[n] >= Len(cs)
                             THEN FirstIndices(cs, k)   \* IndexError, caught: the first k chunks
                             ELSE top_k :
                             top_k \in {Prefix(SortedIndices(sims, 0..(Len(embs) - 1)), k)} })

\* similarity_search(query, k): the texts of the chunks
SimilaritySearch(cs, embs, qresult, k) ==
    Only({ [n \in 1..Len(idx) |-> cs[idx[n] + 1]] : idx \in {SearchIndices(cs, embs, qresult, k)} })

\* no similarity_search call yet
NoSearch == [called |-> FALSE, query |-> [shape |-> "raise", vec |-> ZeroVector], k |-> 0,
             indices |-> << >>, result |-> << >>, repeated |-> FALSE, again |-> << >>]

\* What the provider does on the query of a caller of the class.
SearchQueryResults ==
    { [shape |-> "dict", vec |-> UnitVector(1)], [shape |-> "list", vec |-> Negated(UnitVector(1))] }
      \cup {[shape |-> "dict", vec |-> ShortVector], [shape |-> "list", vec |-> << >>]}
      \cup {[shape |-> "other", vec |-> ZeroVector], [shape |-> "raise", vec |-> ZeroVector]}

\* The store after similarity_search(query, k).  The method assigns to neither
\* self.chunks nor self.embeddings: it sorts its local list `similarities` and
\* returns a slice or a new list.
MutStoreAfterSearchTruncates(cs, embs, qresult, k) ==
    [chunks |-> Prefix(cs, k), embeddings |-> embs]
StoreAfterSearch(cs, embs, qresult, k) == [chunks |-> cs, embeddings |-> embs]

\* a caller of the class calls similarity_search(query, k) on the store; the
\* harness follows one call, and its repetition, per store
StoreSearch ==
    /\ pc = "off"
    /\ at_pc \in {"idle", "returned"}
    /\ ~search.called /\ ~stats.called
    /\ \E qresult \in SearchQueryResults, k \in 0..MaxK :
         /\ search' = [called |-> TRUE, query |-> qresult, k |-> k,
                       indices |-> SearchIndices(chunks, embeddings, qresult, k),
                       result |-> SimilaritySearch(chunks, embeddings, qresult, k),
                       repeated |-> FALSE, again |-> << >>]
         /\ chunks' = StoreAfterSearch(chunks, embeddings, qresult, k).chunks
         /\ embeddings' = StoreAfterSearch(chunks, embeddings, qresult, k).embeddings
    /\ UNCHANGED <<at_pc, at_i, failed_count, at_calls, at_pause, stats>>
    /\ UNCHANGED <<splitVars, evVars, auditVars, sessionVars, pdfVars>>

\* the caller repeats the call, the provider answering the query as before
StoreSearchAgain ==
    /\ pc = "off"
    /\ at_pc \in {"idle", "returned"}
    /\ search.called /\ ~search.repeated
    /\ search' = [search EXCEPT !.repeated = TRUE,
                                !.again = SimilaritySearch(chunks, embeddings,
                                                           search.query, search.k)]
    /\ chunks' = StoreAfterSearch(chunks, embeddings, search.query, search.k).chunks
    /\ embeddings' = StoreAfterSearch(chunks, embeddings, search.query, search.k).embeddings
    /\ UNCHANGED <<at_pc, at_i, failed_count, at_calls, at_pause, stats>>
    /\ UNCHANGED <<splitVars, evVars, auditVars, sessionVars, pdfVars>>

(* get_stats *)

\* no get_stats call yet
NoStats == [called |-> FALSE, total_chunks |-> 0, total_embeddings |-> 0,
            embedding_dimension |-> 0, zero_vectors |-> 0]

\* `all(v == 0.0 for v in emb)`
AllZero(emb) == \A d \in 1..Len(emb) : emb[d] = 0

\* the dictionary get_stats returns
GetStats(cs, embs) ==
    [called |-> TRUE, total_chunks |-> Len(cs), total_embeddings |-> Len(embs),
     embedding_dimension |-> EMBEDDING_DIMENSION,
     zero_vectors |-> Cardinality({ n \in 1..Len(embs) : AllZero(embs[n]) })]

\* The store after get_stats(): the method only takes lengths and counts.
StoreAfterGetStats(cs, embs) == [chunks |-> cs, embeddings |-> embs]

\* a caller of the class calls get_stats() on the store
StoreGetStats ==
    /\ pc = "off"
    /\ at_pc \in {"idle", "returned"}
    /\ ~search.called /\ ~stats.called
    /\ stats' = GetStats(chunks, embeddings)
    /\ chunks' = StoreAfterGetStats(chunks, embeddings).chunks
    /\ embeddings' = StoreAfterGetStats(chunks, embeddings).embeddings
    /\ UNCHANGED <<at_pc, at_i, failed_count, at_calls, at_pause, search>>
    /\ UNCHANGED <<splitVars, evVars, auditVars, sessionVars, pdfVars>>

-----------------------------------------------------------------------------
(* Section scoring (core/auditor.py) *)

\* "\n---\n"
Separator == <<"\n", "-", "-", "-", "\n">>

\* The fixed 'no relevant content found' sentence, held as one token.
Placeholder == <<"(no relevant content found)">>

\* "\n---\n".join(docs)
RECURSIVE Join(_)
Join(docs) ==
    IF docs = << >> THEN << >>
    ELSE IF Len(docs) = 1 THEN docs[1]
    ELSE docs[1] \o Separator \o Join(Tail(docs))

\* A store object is truthy (the class defines neither __bool__ nor __len__);
\* None is falsy.
Truthy(vs) == vs # "None"

\* get_relevant_context(vector_store, query, k)
GetRelevantContext(vs, cs, embs, qresult, k) ==
    IF vs = "None" THEN << >>
    ELSE Only({ Join(docs) : docs \in {SimilaritySearch(cs, embs, qresult, k)} })

\* The context a section scorer assembles, before the prompt is built.
MutSectionContextNoPlaceholder(vs, cs, embs, qresult, text) ==
    IF Truthy(vs)
    THEN GetRelevantContext(vs, cs, embs, qresult, TOP_K_DOCUMENTS)
    ELSE IF text # << >> THEN Prefix(text, MAX_CONTEXT_LENGTH) ELSE << >>
SectionContext(vs, cs, embs, qresult, text) ==
    Only({ IF context = << >> THEN Placeholder ELSE context :
           context \in { IF Truthy(vs)
                         THEN GetRelevantContext(vs, cs, embs, qresult, TOP_K_DOCUMENTS)
                         ELSE IF text # << >> THEN Prefix(text, MAX_CONTEXT_LENGTH)
                         ELSE << >> } })

\* _build_*_prompt: the part of the prompt that depends on the context
PromptContext(context) == Only({ Prefix(c, MAX_CONTEXT_LENGTH) : c \in {context} })

(* What the generative model does on one call. *)
RequiredKeys == <<"total_score", "detailed_scores">>
OptionalKeys == {"reasoning", "strengths", "weaknesses", "recommendations"}
FullKeys == {"total_score", "detailed_scores"} \cup OptionalKeys
\* total_score values the model answers with: below, inside and above both ranges
ScoreSamples == { 0 - 1, 0, 25,
                  POLICY_ALIGNMENT_MAX_SCORE, POLICY_ALIGNMENT_MAX_SCORE + 1,
                  IMPLEMENTATION_READINESS_MAX_SCORE,
                  IMPLEMENTATION_READINESS_MAX_SCORE + 1 }
\* kind "raise": generate_content (or reading response.text) raises;
\* "not_json": the text is not JSON; "json_object": a JSON object with these keys.
\* total_score is the value under that key, when the key is there.
Responses ==
    [kind : {"json_object"}, keys : {FullKeys, {"total_score", "detailed_scores"}},
     total_score : ScoreSamples]
      \cup { [kind |-> "json_object", keys |-> {"total_score"} \cup OptionalKeys,
              total_score |-> 25],
             [kind |-> "json_object", keys |-> {"detailed_scores"} \cup OptionalKeys,
              total_score |-> 0],
             [kind |-> "json_object", keys |-> {}, total_score |-> 0] }
      \cup [kind : {"raise", "not_json"}, keys : {{}}, total_score : {0}]

\* dict.get(key, default) on the parsed response
Get(result, key, value, default) == IF key \in result.keys THEN value ELSE default

\* str(e): a KeyError prints the repr of its argument
ExcStr(e) == IF e.type = "KeyError" THEN <<"\"">> \o e.msg \o <<"\"">> ELSE e.msg

\* _parse_and_validate_response(response_text, required_keys)
MutParseAndValidateLastMissing(resp, required_keys) ==
    IF resp.kind = "not_json"
    THEN Raise("JSONDecodeError", <<"Expecting value">>)
    ELSE LET missing == { i \in 1..Len(required_keys) : required_keys[i] \notin resp.keys }
         IN  IF missing # {}
             THEN LET last == CHOOSE i \in missing : \A j \in missing : i >= j
                  IN  Raise("KeyError",
                            <<"required key '", required_keys[last], "' is not in the response">>)
             ELSE [raised |-> FALSE, exc |-> NoExc, obj |-> resp]
ParseAndValidate(resp, required_keys) ==
    IF resp.kind = "not_json"
    THEN Raise("JSONDecodeError", <<"Expecting value">>)
    ELSE LET missing == { i \in 1..Len(required_keys) : required_keys[i] \notin resp.keys }
         IN  IF missing # {}
             THEN LET first == CHOOSE i \in missing : \A j \in missing : i <= j
                  IN  Raise("KeyError",
                            <<"required key '", required_keys[first], "' is not in the response">>)
             ELSE [raised |-> FALSE, exc |-> NoExc, obj |-> resp]

\* round(score / max_score * 100, 1), in tenths
RoundPercentage(score, max_score) == (2000 * score + max_score) \div (2 * max_score)

\* _create_audit_evidence(result, max_score)
MutCreateAuditEvidenceClamp(result, max_score) ==
    LET score == Max(0, Min(max_score, Get(result, "total_score", result.total_score, 0)))
    IN  AuditEvidenceNew(score, max_score,
                         IF max_score > 0 THEN RoundPercentage(score, max_score) ELSE 0,
                         Get(result, "detailed_scores", <<"ds">>, << >>),
                         Get(result, "reasoning", <<"why">>, << >>),
                         Get(result, "strengths", <<"s">>, << >>),
                         Get(result, "weaknesses", <<"w">>, << >>),
                         Get(result, "recommendations", <<"r">>, << >>))
CreateAuditEvidence(result, max_score) ==
    LET score == Get(result, "total_score", result.total_score, 0)
    IN  AuditEvidenceNew(score, max_score,
                         IF max_score > 0 THEN RoundPercentage(score, max_score) ELSE 0,
                         Get(result, "detailed_scores", <<"ds">>, << >>),
                         Get(result, "reasoning", <<"why">>, << >>),
                         Get(result, "strengths", <<"s">>, << >>),
                         Get(result, "weaknesses", <<"w">>, << >>),
                         Get(result, "recommendations", <<"r">>, << >>))

(* _create_audit_evidence on any JSON value of total_score.  json.loads     *)
(* gives an int, a float, a bool or a str; the code does not look at the    *)
(* type.  A value is held as its Python type and its magnitude in tenths    *)
(* (True is 1, False is 0; a string holds the number its digits spell).     *)
JsonInt(n)   == [type |-> "int", tenths |-> 10 * n]
JsonFloat(t) == [type |-> "float", tenths |-> t]
JsonBool(b)  == [type |-> "bool", tenths |-> IF b THEN 10 ELSE 0]
JsonStr(n)   == [type |-> "str", tenths |-> 10 * n]

\* total_score values of the creation harness: integers, numbers ending in
\* .5, both booleans, numeric strings
TotalScoreValues ==
    { JsonInt(n) : n \in ((0 - 1)..(MaxEvArg + 1)) \cup ScoreSamples }
      \cup { JsonFloat(10 * n + 5) : n \in ((0 - 1)..MaxEvArg) \cup {12, POLICY_ALIGNMENT_MAX_SCORE} }
      \cup { JsonBool(b) : b \in BOOLEAN }
      \cup { JsonStr(0), JsonStr(25) }
\* max_score arguments of the creation harness
MaxScoreSamples ==
    (0..MaxEvArg) \cup {POLICY_ALIGNMENT_MAX_SCORE, IMPLEMENTATION_READINESS_MAX_SCORE}

\* round(score / max_score * 100, 1), in tenths, of a magnitude in tenths.
\* No maximum of the model makes score / max_score * 100 end in 5 hundredths,
\* so rounding half up and rounding half to even agree.
MutRoundPercentageOfTruncates(tenths, max_score) == (100 * tenths) \div max_score
RoundPercentageOf(tenths, max_score) == (200 * tenths + max_score) \div (2 * max_score)

\* __post_init__ on a score of any numeric type
PostInitOf(value, max_score, percentage) ==
    IF value.tenths < 0 \/ value.tenths > 10 * max_score
    THEN [type |-> "ValueError",
          msg |-> <<"score must be between 0 and ", ToString(max_score), ".">>]
    ELSE IF percentage < 0 \/ percentage > PCT_LIMIT
    THEN [type |-> "ValueError", msg |-> <<"percentage must be between 0 and 100">>]
    ELSE NoExc

NoEvidenceOf == [raised |-> FALSE, exc |-> NoExc,
                 obj |-> [score |-> JsonInt(0), max_score |-> 0, percentage |-> 0]]

\* _create_audit_evidence, on the value under total_score: the score, maximum
\* and percentage of the evidence, or the exception.  A str raises TypeError,
\* in the division when max_score > 0 and in `self.score < 0` otherwise.
CreateAuditEvidenceOf(value, max_score) ==
    IF value.type = "str"
    THEN [raised |-> TRUE,
          exc |-> [type |-> "TypeError", msg |-> <<"unsupported operand type(s)">>],
          obj |-> NoEvidenceOf.obj]
    ELSE LET percentage == IF max_score > 0
                           THEN RoundPercentageOf(value.tenths, max_score) ELSE 0
             e == PostInitOf(value, max_score, percentage)
         IN  IF e.type # "none"
             THEN [raised |-> TRUE, exc |-> e, obj |-> NoEvidenceOf.obj]
             ELSE [raised |-> FALSE, exc |-> NoExc,
                   obj |-> [score |-> value, max_score |-> max_score,
                            percentage |-> percentage]]

CreateEvidence ==
    /\ ce_pc = "args"
    /\ ce_out' = CreateAuditEvidenceOf(ce_args.total_score, ce_args.max_score)
    /\ ce_pc' = "done"
    /\ UNCHANGED <<ce_args, ev_pc, ev_args, ev_out>>
    /\ UNCHANGED <<splitVars, storeVars, auditVars, sessionVars, pdfVars>>

\* the try block of a section scorer
TrySection(resp, max_score) ==
    IF resp.kind = "raise"
    THEN Raise("Exception", <<"generation failed">>)
    ELSE LET parsed == ParseAndValidate(resp, RequiredKeys)
         IN  IF parsed.raised THEN parsed
             ELSE CreateAuditEvidence(parsed.obj, max_score)

\* the except clauses of a section scorer: JSONDecodeError first, then Exception
MutSectionExceptJsonOnly(e, max_score) ==
    IF e.type = "JSONDecodeError"
    THEN CreateFailed(max_score, <<"JSON parse failed: ">> \o ExcStr(e))
    ELSE Raise(e.type, e.msg)
SectionExcept(e, max_score) ==
    IF e.type = "JSONDecodeError"
    THEN CreateFailed(max_score, <<"JSON parse failed: ">> \o ExcStr(e))
    ELSE CreateFailed(max_score, ExcStr(e))

\* analyze_policy_alignment / analyze_implementation_readiness, from the model
\* call to the return: an evidence, or an exception that leaves the scorer
ScoreSection(resp, max_score) ==
    LET t == TrySection(resp, max_score)
    IN  IF t.raised THEN SectionExcept(t.exc, max_score) ELSE t

-----------------------------------------------------------------------------
(* conduct_audit (core/auditor.py 439-504) *)

\* a section scorer's call: the store it was given, the context in its prompt,
\* the response the generative model gave
NotCalled == [called |-> FALSE, store |-> "None", context |-> << >>,
              response |-> [kind |-> "raise", keys |-> {}, total_score |-> 0]]

\* One section of the results dictionary.  Its keys are score, max, percentage,
\* detailed scores, strengths, weaknesses, recommendations.
SectionEntry(e) ==
    [score |-> e.score, max_score |-> e.max_score, percentage |-> e.percentage,
     detailed_scores |-> e.detailed_scores,
     strengths |-> e.strengths, weaknesses |-> e.weaknesses,
     recommendations |-> e.recommendations]

\* "분석시간": the duration of the run, formatted with one decimal
NoDuration == "none"
Duration == "seconds"

Pending == [status |-> "pending", total |-> 0, policy |-> SectionEntry(NoObj),
            impl |-> SectionEntry(NoObj), duration |-> NoDuration, rag_used |-> FALSE]
\* `return None` of the except clause of conduct_audit
ReturnedNone == [status |-> "None", total |-> 0, policy |-> SectionEntry(NoObj),
                 impl |-> SectionEntry(NoObj), duration |-> NoDuration, rag_used |-> FALSE]

\* "RAG_사용": vector_store is not None
MutRagUsedAlways(vs) == TRUE
RagUsed(vs) == vs # "None"

\* the results dictionary
MutReportPolicyOnly(p, i, vs) ==
    [status |-> "report", total |-> p.score,
     policy |-> SectionEntry(p), impl |-> SectionEntry(i),
     duration |-> Duration, rag_used |-> RagUsed(vs)]
Report(p, i, vs) ==
    [status |-> "report", total |-> p.score + i.score,
     policy |-> SectionEntry(p), impl |-> SectionEntry(i),
     duration |-> Duration, rag_used |-> RagUsed(vs)]

\* The except clause of conduct_audit: whatever the steps have produced so
\* far is dropped and None is returned.
MutAuditExceptPartial(p, i, vs) == Report(p, i, vs)
AuditExcept(p, i, vs) == ReturnedNone

\* The order of the steps of conduct_audit: policy alignment, then
\* implementation readiness, then the results dictionary.  The evidence a
\* scorer returned has no part in it: a failed section is neither called again
\* nor does it end the run.
MutStageAfterSkipOnFailure(stage, evidence) ==
    IF stage = "policy" /\ evidence.score > 0 THEN "impl" ELSE "aggregate"
StageAfter(stage, evidence) ==
    IF stage = "policy" THEN "impl" ELSE "aggregate"

\* Where conduct_audit goes once create_vector_store returned vs: a missing
\* store gives a warning, and the policy step follows in either case.
MutAfterIndexingStopsOnFailure(vs) == IF vs = "None" THEN "except" ELSE "policy"
AfterIndexing(vs) == "policy"

\* create_vector_store, to the point where it returns None or add_texts runs.
\* setup_raises: SimpleVectorStore(...) or the start of add_texts raises.
CreateVectorStore ==
    /\ pc = "start"
    /\ \E setup_raises \in BOOLEAN :
         LET split == SplitText(full_text, CHUNK_SIZE, CHUNK_OVERLAP)
         IN  IF full_text = << >> \/ split = << >> \/ setup_raises
             THEN /\ vector_store' = "None"
                  /\ pc' = AfterIndexing("None")
                  /\ UNCHANGED storeVars
             ELSE /\ embeddings' = << >>
                  /\ AddTextsEnter(split)
                  /\ pc' = "indexing"
                  /\ UNCHANGED <<vector_store, search, stats>>
    /\ UNCHANGED <<full_text, policy_call, impl_call, policy_result, impl_result, results,
                   llm_log>>
    /\ UNCHANGED <<splitVars, evVars, sessionVars, pdfVars>>

\* `return vector_store` after add_texts returned; conduct_audit goes on
CreateVectorStoreReturn ==
    /\ pc = "indexing"
    /\ at_pc = "returned"
    /\ vector_store' = "store"
    /\ pc' = AfterIndexing("store")
    /\ UNCHANGED <<full_text, policy_call, impl_call, policy_result, impl_result, results,
                   llm_log>>
    /\ UNCHANGED <<splitVars, evVars, storeVars, sessionVars, pdfVars>>

\* An exception leaves add_texts (from the reporting calls of its except
\* handler or after its loop): the except clause of create_vector_store
\* returns None, and conduct_audit goes on.
CreateVectorStoreExcept ==
    /\ pc = "indexing"
    /\ at_pc = "loop"
    /\ at_pc' = "raised"
    /\ vector_store' = "None"
    /\ pc' = AfterIndexing("None")
    /\ UNCHANGED <<chunks, embeddings, at_i, failed_count, at_calls, at_pause, search, stats>>
    /\ UNCHANGED <<full_text, policy_call, impl_call, policy_result, impl_result, results,
                   llm_log>>
    /\ UNCHANGED <<splitVars, evVars, sessionVars, pdfVars>>

AnalyzePolicyAlignment ==
    /\ pc = "policy"
    /\ \E qresult \in QueryResults, resp \in Responses :
         LET context == SectionContext(vector_store, chunks, embeddings, qresult, full_text)
             out     == ScoreSection(resp, POLICY_ALIGNMENT_MAX_SCORE)
         IN  /\ policy_call' = [called |-> TRUE, store |-> vector_store,
                                context |-> PromptContext(context),
                                response |-> resp]
             /\ IF out.raised
                THEN /\ results' = ReturnedNone
                     /\ pc' = "done"
                     /\ UNCHANGED policy_result
                ELSE /\ policy_result' = out.obj
                     /\ pc' = StageAfter("policy", out.obj)
                     /\ UNCHANGED results
    /\ llm_log' = Append(llm_log, "policy")
    /\ UNCHANGED <<full_text, vector_store, impl_call, impl_result>>
    /\ UNCHANGED <<splitVars, evVars, storeVars, sessionVars, pdfVars>>

AnalyzeImplementationReadiness ==
    /\ pc = "impl"
    /\ \E qresult \in QueryResults, resp \in Responses :
         LET context == SectionContext(vector_store, chunks, embeddings, qresult, full_text)
             out     == ScoreSection(resp, IMPLEMENTATION_READINESS_MAX_SCORE)
         IN  /\ impl_call' = [called |-> TRUE, store |-> vector_store,
                              context |-> PromptContext(context),
                              response |-> resp]
             /\ IF out.raised
                THEN /\ results' = ReturnedNone
                     /\ pc' = "done"
                     /\ UNCHANGED impl_result
                ELSE /\ impl_result' = out.obj
                     /\ pc' = StageAfter("impl", out.obj)
                     /\ UNCHANGED results
    /\ llm_log' = Append(llm_log, "impl")
    /\ UNCHANGED <<full_text, vector_store, policy_call, policy_result>>
    /\ UNCHANGED <<splitVars, evVars, storeVars, sessionVars, pdfVars>>

\* An exception reaches the except clause of conduct_audit from one of its
\* own calls between the indexing and the first scorer (st.warning,
\* st.spinner); the scorers and create_vector_store catch their own.  The
\* call has then returned from its except clause.
ConductAuditExcept ==
    /\ pc = "policy"
    /\ results' = AuditExcept(policy_result, impl_result, vector_store)
    /\ pc' = "except"
    /\ UNCHANGED <<full_text, vector_store, policy_call, impl_call,
                   policy_result, impl_result, llm_log>>
    /\ UNCHANGED <<splitVars, evVars, storeVars, sessionVars, pdfVars>>

\* step 4: the results dictionary is built and returned
Aggregate ==
    /\ pc = "aggregate"
    /\ results' = Report(policy_result, impl_result, vector_store)
    /\ pc' = "done"
    /\ UNCHANGED <<full_text, vector_store, policy_call, impl_call,
                   policy_result, impl_result, llm_log>>
    /\ UNCHANGED <<splitVars, evVars, storeVars, sessionVars, pdfVars>>

-----------------------------------------------------------------------------
(* extract_text_from_pdf (core/auditor.py 77-103) *)

\* What page.extract_text() does on page n: raises, or returns a text (which
\* may be empty).  The text of a page holds the page's own letter.
PageOutcomes(n) ==
    { [fails |-> TRUE, text |-> << >>], [fails |-> FALSE, text |-> << >>],
      [fails |-> FALSE, text |-> <<Alphabet[n], "x">>] }

\* the documents: up to MaxPages pages
Documents ==
    UNION { { pages \in [1..n -> UNION { PageOutcomes(m) : m \in 1..n }] :
                \A m \in 1..n : pages[m] \in PageOutcomes(m) } : n \in 0..MaxPages }

\* the body of the page loop: `full_text += page.extract_text() + "\n"`, or
\* the except clause, which leaves full_text as it is
MutExtractPageDropsEarlier(text, page) ==
    IF page.fails THEN << >> ELSE text \o page.text \o <<"\n">>
ExtractPage(text, page) ==
    IF page.fails THEN text ELSE text \o page.text \o <<"\n">>

\* PyPDF2.PdfReader(pdf_file) and len(pdf_reader.pages); a failure here is
\* raised again by the outer except clause
PdfOpen ==
    /\ pdf_pc = "open"
    /\ pdf_pc' = IF pdf_opens THEN "loop" ELSE "raised"
    /\ UNCHANGED <<pdf_opens, pdf_pages, pdf_i, pdf_text>>
    /\ UNCHANGED <<splitVars, evVars, storeVars, auditVars, sessionVars>>

PdfPage ==
    /\ pdf_pc = "loop"
    /\ pdf_i < Len(pdf_pages)
    /\ pdf_text' = ExtractPage(pdf_text, pdf_pages[pdf_i + 1])
    /\ pdf_i' = pdf_i + 1
    /\ UNCHANGED <<pdf_pc, pdf_opens, pdf_pages>>
    /\ UNCHANGED <<splitVars, evVars, storeVars, auditVars, sessionVars>>

PdfReturn ==
    /\ pdf_pc = "loop"
    /\ pdf_i = Len(pdf_pages)
    /\ pdf_pc' = "returned"
    /\ UNCHANGED <<pdf_opens, pdf_pages, pdf_i, pdf_text>>
    /\ UNCHANGED <<splitVars, evVars, storeVars, auditVars, sessionVars>>

-----------------------------------------------------------------------------
(* Several conduct_audit invocations under way at once.  Each invocation has *)
(* its own locals (full_text, vector_store, the loop of add_texts); a       *)
(* SimpleVectorStore object lives on the heap and an invocation holds a     *)
(* reference to it (0 is None).                                             *)

\* the characters of the document of invocation a: no two documents share one
Letters == << <<"a", "b", "c", "d", "e">>, <<"A", "B", "C", "D", "E">>,
              <<"p", "q", "r", "s", "t">>, <<"P", "Q", "R", "S", "T">> >>
SessionText(a, n) == SubSeq(Letters[a], 1, n)

\* `SimpleVectorStore(self.api_key)`: the reference of the object constructed,
\* a new object on every call
MutNewStoreShared(h) == 1
NewStore(h) == Len(h) + 1

\* the heap after the object at ref was set to obj
HeapPut(h, ref, obj) == IF ref > Len(h) THEN Append(h, obj) ELSE [h EXCEPT ![ref] = obj]

\* __init__ (chunks and embeddings empty), then `self.chunks = texts`
StoreObject(texts) == [chunks |-> texts, embeddings |-> << >>]

\* the chunks create_vector_store makes of a text
SessionChunks(text) == SplitText(text, CHUNK_SIZE, CHUNK_OVERLAP)

\* What the embedding provider does on a chunk of these invocations.
SessionEmbedResults ==
    { [shape |-> "dict", vec |-> UnitVector(1)], [shape |-> "raise", vec |-> ZeroVector] }

\* What the provider does on the query of a section scorer of these invocations.
SessionQueryResults ==
    { [shape |-> "dict", vec |-> UnitVector(1)], [shape |-> "raise", vec |-> ZeroVector] }

\* the lengths of the documents: empty, and the two longest
SessionLengths == {0} \cup ((MaxSessionTextLen - 1)..MaxSessionTextLen)

SessionStart == [pc |-> "start", store |-> 0, i |-> 0, began_beside |-> FALSE,
                 docs |-> << >>, context |-> << >>]

\* create_vector_store up to the loop of add_texts: None for an empty text,
\* else a store object is constructed and given the chunks
SessionCreate(a) ==
    /\ sess[a].pc = "start"
    /\ IF sess[a].text = << >> \/ SessionChunks(sess[a].text) = << >>
       THEN /\ sess' = [sess EXCEPT ![a].pc = "retrieve"]
            /\ UNCHANGED heap
       ELSE LET ref == NewStore(heap)
            IN  /\ heap' = HeapPut(heap, ref, StoreObject(SessionChunks(sess[a].text)))
                /\ sess' = [sess EXCEPT ![a].pc = "indexing", ![a].store = ref,
                                        ![a].began_beside =
                                            \E b \in DOMAIN sess : b # a /\ sess[b].pc = "indexing"]
    /\ UNCHANGED <<splitVars, evVars, storeVars, auditVars, pdfVars>>

\* one pass of the loop of add_texts, over the list it was called with
SessionEmbed(a) ==
    /\ sess[a].pc = "indexing"
    /\ sess[a].i < Len(SessionChunks(sess[a].text))
    /\ \E result \in SessionEmbedResults :
         LET ref == sess[a].store
             b   == AddTextsBody(heap[ref].embeddings, 0, result, FALSE)
         IN  heap' = [heap EXCEPT ![ref].embeddings = b.embeddings]
    /\ sess' = [sess EXCEPT ![a].i = sess[a].i + 1]
    /\ UNCHANGED <<splitVars, evVars, storeVars, auditVars, pdfVars>>

\* add_texts and create_vector_store return the store
SessionIndexed(a) ==
    /\ sess[a].pc = "indexing"
    /\ sess[a].i = Len(SessionChunks(sess[a].text))
    /\ sess' = [sess EXCEPT ![a].pc = "retrieve"]
    /\ UNCHANGED heap
    /\ UNCHANGED <<splitVars, evVars, storeVars, auditVars, pdfVars>>

\* a section scorer assembles its context from the store it was given
SessionRetrieve(a) ==
    /\ sess[a].pc = "retrieve"
    /\ \E qresult \in SessionQueryResults :
         LET ref  == sess[a].store
             vs   == IF ref = 0 THEN "None" ELSE "store"
             cs   == IF ref = 0 THEN << >> ELSE heap[ref].chunks
             embs == IF ref = 0 THEN << >> ELSE heap[ref].embeddings
         IN  sess' = [sess EXCEPT
                        ![a].pc = "done",
                        ![a].docs = IF ref = 0 THEN << >>
                                    ELSE SimilaritySearch(cs, embs, qresult, TOP_K_DOCUMENTS),
                        ![a].context = PromptContext(
                                          SectionContext(vs, cs, embs, qresult, sess[a].text))]
    /\ UNCHANGED heap
    /\ UNCHANGED <<splitVars, evVars, storeVars, auditVars, pdfVars>>

-----------------------------------------------------------------------------
(* Specifications *)

SplitOff == /\ sp_pc = "off" /\ sp_text = << >> /\ sp_chunk_size = 1
            /\ sp_overlap = 0 /\ sp_start = 0 /\ sp_chunks = << >>
ConstructOff == /\ ev_pc = "off"
                /\ ev_args = [score |-> 0, max_score |-> 0, percentage |-> 0]
                /\ ev_out = Return(NoObj)
CreateOff == /\ ce_pc = "off"
             /\ ce_args = [total_score |-> JsonInt(0), max_score |-> 0]
             /\ ce_out = NoEvidenceOf
EvOff    == ConstructOff /\ CreateOff
\* SimpleVectorStore.__init__: chunks and embeddings empty
StoreNew == /\ chunks = << >> /\ embeddings = << >> /\ at_pc = "idle"
            /\ at_i = 0 /\ failed_count = 0 /\ at_calls = 0 /\ at_pause = "none"
            /\ search = NoSearch /\ stats = NoStats
AuditOff == /\ pc = "off" /\ full_text = << >> /\ vector_store = "None"
            /\ policy_call = NotCalled /\ impl_call = NotCalled
            /\ policy_result = NoObj /\ impl_result = NoObj /\ results = Pending
            /\ llm_log = << >>

SessionsOff == heap = << >> /\ sess = << >>
PdfOff == /\ pdf_pc = "off" /\ pdf_opens = TRUE /\ pdf_pages = << >>
          /\ pdf_i = 0 /\ pdf_text = << >>

\* One conduct_audit run on a document text.
Init ==
    /\ PdfOff
    /\ SessionsOff
    /\ SplitOff /\ EvOff /\ StoreNew
    /\ pc = "start"
    /\ full_text \in { DocText(n) : n \in 0..MaxTextLen }
    /\ vector_store = "None"
    /\ policy_call = NotCalled /\ impl_call = NotCalled
    /\ policy_result = NoObj /\ impl_result = NoObj /\ results = Pending
    /\ llm_log = << >>

Next ==
    \/ CreateVectorStore
    \/ AddTextsStep
    \/ AddTextsReturn
    \/ CreateVectorStoreReturn
    \/ CreateVectorStoreExcept
    \/ AnalyzePolicyAlignment
    \/ AnalyzeImplementationReadiness
    \/ Aggregate
    \/ ConductAuditExcept

Spec == Init /\ [][Next]_vars

\* One conduct_audit run on a non-empty text in which every external call
\* returns or raises and conduct_audit's own reporting calls return.  The
\* method is sequential code: a step that can be taken is taken.
InitLive == Init /\ Len(full_text) \in 1..MaxLiveTextLen
NextLive ==
    \/ CreateVectorStore
    \/ AddTextsStep
    \/ AddTextsReturn
    \/ CreateVectorStoreReturn
    \/ CreateVectorStoreExcept
    \/ AnalyzePolicyAlignment
    \/ AnalyzeImplementationReadiness
    \/ Aggregate
SpecLive == InitLive /\ [][NextLive]_vars /\ WF_vars(NextLive)

\* A SimpleVectorStore object and its callers.
InitStore == SplitOff /\ EvOff /\ StoreNew /\ AuditOff /\ SessionsOff /\ PdfOff
NextStore ==
    \/ StoreAddTexts
    \/ AddTextsStep
    \/ AddTextsReturn
    \/ StoreSearch
    \/ StoreSearchAgain
    \/ StoreGetStats
SpecStore == InitStore /\ [][NextStore]_vars

\* One call of _split_text(text, chunk_size, overlap).
InitSplit ==
    /\ PdfOff
    /\ SessionsOff
    /\ EvOff /\ StoreNew /\ AuditOff
    /\ sp_pc = "loop"
    /\ sp_text \in SeqsUpTo({"a", "b"}, MaxSplitLen)
    /\ sp_chunk_size \in 0..MaxSplitArg
    /\ sp_overlap \in 0..MaxSplitArg
    /\ sp_start = 0
    /\ sp_chunks = << >>
NextSplit == SplitIterate \/ SplitReturn
SpecSplit == InitSplit /\ [][NextSplit]_vars

\* One construction AuditEvidence(score, max_score, percentage, ...).
InitEvidence ==
    /\ PdfOff
    /\ SessionsOff
    /\ SplitOff /\ StoreNew /\ AuditOff /\ CreateOff
    /\ ev_pc = "args"
    /\ ev_args \in [score : (0 - 2)..(MaxEvArg + 1), max_score : 0..MaxEvArg,
                    percentage : PctSamples]
    /\ ev_out = Return(NoObj)
NextEvidence == EvConstruct
SpecEvidence == InitEvidence /\ [][NextEvidence]_vars

\* One call _create_audit_evidence(result, max_score), the parsed response
\* holding any JSON value under total_score.
InitCreate ==
    /\ PdfOff
    /\ SessionsOff
    /\ SplitOff /\ StoreNew /\ AuditOff /\ ConstructOff
    /\ ce_pc = "args"
    /\ ce_args \in [total_score : TotalScoreValues, max_score : MaxScoreSamples]
    /\ ce_out = NoEvidenceOf
NextCreate == CreateEvidence
SpecCreate == InitCreate /\ [][NextCreate]_vars

\* MaxAudits conduct_audit invocations on one auditor, their steps interleaved.
InitSessions ==
    /\ PdfOff
    /\ SplitOff /\ EvOff /\ StoreNew /\ AuditOff
    /\ heap = << >>
    /\ sess \in { [a \in 1..MaxAudits |->
                     [text |-> SessionText(a, len[a])] @@ SessionStart] :
                  len \in [1..MaxAudits -> SessionLengths] }
NextSessions ==
    \E a \in 1..MaxAudits :
        SessionCreate(a) \/ SessionEmbed(a) \/ SessionIndexed(a) \/ SessionRetrieve(a)
SpecSessions == InitSessions /\ [][NextSessions]_vars

\* One call of extract_text_from_pdf on a document.
InitPdf ==
    /\ SplitOff /\ EvOff /\ StoreNew /\ AuditOff /\ SessionsOff
    /\ pdf_pc = "open"
    /\ pdf_opens \in BOOLEAN
    /\ pdf_pages \in Documents
    /\ pdf_i = 0
    /\ pdf_text = << >>
NextPdf == PdfOpen \/ PdfPage \/ PdfReturn
SpecPdf == InitPdf /\ [][NextPdf]_vars

-----------------------------------------------------------------------------
(* Properties *)

RequiredSet == { RequiredKeys[i] : i \in 1..Len(RequiredKeys) }

\* the response is not JSON, or lacks a required key
Malformed(resp) ==
    \/ resp.kind = "not_json"
    \/ (resp.kind = "json_object" /\ ~(RequiredSet \subseteq resp.keys))

\* the response is a JSON object with the required keys ...
WellFormed(resp) == resp.kind = "json_object" /\ RequiredSet \subseteq resp.keys
\* ... and a total_score inside the section's range
Compliant(resp, max_score) ==
    WellFormed(resp) /\ 0 <= resp.total_score /\ resp.total_score <= max_score
\* ... and a total_score outside it
OutOfRange(resp, max_score) ==
    WellFormed(resp) /\ (resp.total_score < 0 \/ resp.total_score > max_score)

\* scoring the section cannot complete
SectionFails(resp, max_score) ==
    resp.kind = "raise" \/ Malformed(resp) \/ OutOfRange(resp, max_score)

FailurePrefix == "analysis failed: "

\* the evidence is what create_failed builds for this maximum
IsFailedEvidence(e, max_score) ==
    /\ e.score = 0 /\ e.percentage = 0 /\ e.max_score = max_score
    /\ e.detailed_scores = << >> /\ e.strengths = << >>
    /\ e.weaknesses = << >> /\ e.recommendations = << >>
    /\ Len(e.reasoning) > 1 /\ e.reasoning[1] = FailurePrefix

\* C1: after add_texts returns, the store holds as many embeddings as chunks.
C1_IndexAlignment ==
    at_pc = "returned" => Len(chunks) = Len(embeddings)

\* add_texts returned and the provider raised on every chunk of a non-empty text
EveryEmbeddingRaised ==
    /\ full_text # << >> /\ at_pc = "returned"
    /\ Len(chunks) > 0 /\ failed_count = Len(chunks)

\* C2: when the provider raised on every chunk of a non-empty text, both
\* section scorers are given store None, build their context from the
\* truncated full text, and the report's RAG-used flag is false.
C2_AllFailedFallsBack ==
    (results.status = "report" /\ EveryEmbeddingRaised) =>
        /\ policy_call.store = "None" /\ impl_call.store = "None"
        /\ policy_call.context = Prefix(full_text, MAX_CONTEXT_LENGTH)
        /\ impl_call.context = Prefix(full_text, MAX_CONTEXT_LENGTH)
        /\ results.rag_used = FALSE

\* C3: with one section's response malformed and the other's compliant, the
\* run returns a report in which the malformed section scores 0 and the other
\* section scores the total_score the model returned; for either section.
C3_FailureContainment ==
    (pc = "done" /\ policy_call.called /\ impl_call.called) =>
        /\ ( ( /\ Malformed(policy_call.response)
               /\ Compliant(impl_call.response, IMPLEMENTATION_READINESS_MAX_SCORE) )
             => /\ results.status = "report"
                /\ policy_result.score = 0 /\ results.policy.score = 0
                /\ impl_result.score = impl_call.response.total_score
                /\ results.impl.score = impl_call.response.total_score )
        /\ ( ( /\ Malformed(impl_call.response)
               /\ Compliant(policy_call.response, POLICY_ALIGNMENT_MAX_SCORE) )
             => /\ results.status = "report"
                /\ impl_result.score = 0 /\ results.impl.score = 0
                /\ policy_result.score = policy_call.response.total_score
                /\ results.policy.score = policy_call.response.total_score )
C3_Witness ==
    /\ pc = "done" /\ results.status = "report"
    /\ Malformed(policy_call.response)
    /\ Compliant(impl_call.response, IMPLEMENTATION_READINESS_MAX_SCORE)
    /\ results.impl.score = IMPLEMENTATION_READINESS_MAX_SCORE
    /\ results.policy.score = 0

\* C4: a section scorer whose model call, parsing, key validation or evidence
\* construction fails lets no exception out and returns the create_failed
\* evidence: score 0, percentage 0.0, the section's maximum, empty lists, and
\* a reasoning that carries the error message.
C4_SectionNeverRaises ==
    /\ ( (policy_call.called /\ SectionFails(policy_call.response, POLICY_ALIGNMENT_MAX_SCORE))
         => /\ results.status # "None"
            /\ pc \in {"impl", "aggregate", "done"}
            /\ IsFailedEvidence(policy_result, POLICY_ALIGNMENT_MAX_SCORE) )
    /\ ( (impl_call.called /\ SectionFails(impl_call.response, IMPLEMENTATION_READINESS_MAX_SCORE))
         => /\ results.status # "None"
            /\ pc \in {"aggregate", "done"}
            /\ IsFailedEvidence(impl_result, IMPLEMENTATION_READINESS_MAX_SCORE) )
C4_Witness ==
    /\ impl_call.called /\ impl_call.response.kind = "raise"
    /\ policy_call.response.kind = "not_json"
    /\ IsFailedEvidence(impl_result, IMPLEMENTATION_READINESS_MAX_SCORE)
    /\ IsFailedEvidence(policy_result, POLICY_ALIGNMENT_MAX_SCORE)

\* the failed evidence that reports the range validation of __post_init__
RangeFailure(e, max_score) ==
    /\ IsFailedEvidence(e, max_score)
    /\ e.reasoning = <<FailurePrefix, "score must be between 0 and ",
                      ToString(max_score), ".">>

\* C5: a total_score outside the section's range gives a failed evidence with
\* score 0 whose reasoning reports the range validation; the value is neither
\* clamped into the range nor carried by the evidence.
C5_OutOfRangeNotClamped ==
    /\ ( (policy_call.called /\ OutOfRange(policy_call.response, POLICY_ALIGNMENT_MAX_SCORE))
         => /\ results.status # "None"
            /\ RangeFailure(policy_result, POLICY_ALIGNMENT_MAX_SCORE) )
    /\ ( (impl_call.called /\ OutOfRange(impl_call.response, IMPLEMENTATION_READINESS_MAX_SCORE))
         => /\ results.status # "None"
            /\ RangeFailure(impl_result, IMPLEMENTATION_READINESS_MAX_SCORE) )
C5_Witness ==
    /\ policy_call.called
    /\ WellFormed(policy_call.response)
    /\ policy_call.response.total_score = POLICY_ALIGNMENT_MAX_SCORE + 1
    /\ RangeFailure(policy_result, POLICY_ALIGNMENT_MAX_SCORE)
    /\ impl_call.called
    /\ WellFormed(impl_call.response)
    /\ impl_call.response.total_score < 0
    /\ RangeFailure(impl_result, IMPLEMENTATION_READINESS_MAX_SCORE)

\* C6: AuditEvidence(score=s, max_score=m, percentage=p, ...) raises a
\* validation error exactly when s < 0, s > m, p < 0 or p > 100; an object
\* that was constructed has 0 <= score <= max_score and 0 <= percentage <= 100.
C6_EvidenceRange ==
    ev_pc = "done" =>
        LET s == ev_args.score
            m == ev_args.max_score
            p == ev_args.percentage
        IN  /\ ev_out.raised <=> (s < 0 \/ s > m \/ p < 0 \/ p > PCT_LIMIT)
            /\ ev_out.raised => ev_out.exc.type = "ValueError"
            /\ ~ev_out.raised =>
                 /\ ev_out.obj.score = s /\ ev_out.obj.max_score = m
                 /\ ev_out.obj.percentage = p
                 /\ 0 <= ev_out.obj.score /\ ev_out.obj.score <= ev_out.obj.max_score
                 /\ 0 <= ev_out.obj.percentage /\ ev_out.obj.percentage <= PCT_LIMIT
C6_Witness ==
    /\ ev_pc = "done" /\ ev_out.raised
    /\ ev_args.score > ev_args.max_score /\ ev_args.score >= 0
    /\ ev_args.percentage = 500

\* C7: in a returned report the total is the policy score plus the
\* implementation score and lies in 0..100, whichever sections failed.
C7_TotalIsSum ==
    results.status = "report" =>
        /\ results.total = policy_result.score + impl_result.score
        /\ results.total = results.policy.score + results.impl.score
        /\ 0 <= results.total /\ results.total <= TOTAL_MAX_SCORE
C7_Witness ==
    /\ results.status = "report"
    /\ results.total = TOTAL_MAX_SCORE
    /\ results.policy.score = POLICY_ALIGNMENT_MAX_SCORE
    /\ results.impl.score = IMPLEMENTATION_READINESS_MAX_SCORE

\* C8: the report of a run in which a section's scoring failed carries, for
\* that section, the failure reason of the evidence's reasoning field.
C8_ReportCarriesFailureReason ==
    results.status = "report" =>
        /\ ( IsFailedEvidence(policy_result, POLICY_ALIGNMENT_MAX_SCORE)
             => /\ "reasoning" \in DOMAIN results.policy
                /\ results.policy.reasoning = policy_result.reasoning )
        /\ ( IsFailedEvidence(impl_result, IMPLEMENTATION_READINESS_MAX_SCORE)
             => /\ "reasoning" \in DOMAIN results.impl
                /\ results.impl.reasoning = impl_result.reasoning )

\* C9: a call of _split_text with overlap >= chunk_size on a non-empty text is
\* rejected: it produces no chunk and does not go round the loop.
C9_BadOverlapRejected ==
    (sp_pc # "off" /\ sp_overlap >= sp_chunk_size /\ sp_text # << >>) =>
        (sp_chunks = << >> /\ sp_start = 0)

\* C10: with 0 <= overlap < chunk_size the call ends, chunk i is
\* text[i*(chunk_size-overlap) : i*(chunk_size-overlap)+chunk_size], every
\* offset of the text lies in a chunk, no chunk is longer than chunk_size, and
\* an empty text gives no chunk.
C10_ChunkCoverage ==
    (sp_pc # "off" /\ 0 <= sp_overlap /\ sp_overlap < sp_chunk_size) =>
        LET step == sp_chunk_size - sp_overlap
            n    == Len(sp_chunks)
        IN  /\ n <= Len(sp_text)
            /\ sp_pc = "loop" => (sp_start < Len(sp_text) => n < LoopCap)
            /\ sp_pc = "done" =>
                 /\ \A i \in 0..(n - 1) :
                      sp_chunks[i + 1] = PySlice(sp_text, i * step, i * step + sp_chunk_size)
                 /\ \A off \in 0..(Len(sp_text) - 1) :
                      \E i \in 0..(n - 1) :
                          i * step <= off /\ off < i * step + Len(sp_chunks[i + 1])
                 /\ \A i \in 1..n : Len(sp_chunks[i]) <= sp_chunk_size
                 /\ (sp_text = << >> => sp_chunks = << >>)
C10_Witness ==
    /\ sp_pc = "done" /\ sp_overlap >= 1 /\ sp_overlap < sp_chunk_size
    /\ Len(sp_chunks) >= 3
    /\ Len(sp_chunks[Len(sp_chunks)]) < sp_chunk_size

\* the policy section's evidence is a failure, whatever the cause
PolicyFailed == policy_call.called /\ IsFailedEvidence(policy_result, POLICY_ALIGNMENT_MAX_SCORE)

\* C11: in a conduct_audit run the generative model is invoked once for the
\* policy section and then once for the implementation section, never again:
\* the log of invocations only grows along <<policy, impl>>, a finished run
\* has made both, and the implementation section is invoked and scored after a
\* failed policy section.
C11_OncePerSectionInOrder ==
    /\ llm_log \in {<< >>, <<"policy">>, <<"policy", "impl">>}
    /\ policy_call.called <=> (Len(llm_log) >= 1)
    /\ impl_call.called <=> (Len(llm_log) = 2)
    /\ pc \in {"start", "indexing", "policy"} => llm_log = << >>
    /\ pc = "impl" => llm_log = <<"policy">>
    /\ pc \in {"aggregate", "done"} =>
         /\ llm_log = <<"policy", "impl">>
         /\ impl_result.max_score = IMPLEMENTATION_READINESS_MAX_SCORE
C11_Witness ==
    /\ pc = "done" /\ results.status = "report"
    /\ PolicyFailed
    /\ llm_log = <<"policy", "impl">>
    /\ results.impl.score = IMPLEMENTATION_READINESS_MAX_SCORE

\* create_vector_store has returned without a store: the text was empty or gave
\* no chunk, or an exception left the constructor or add_texts
StoreNotBuilt == pc \notin {"start", "indexing"} /\ at_pc \in {"idle", "raised"}

\* C12: when no store was built, both section scorers are given store None and
\* the report's RAG-used flag is false; the flag is true only when both
\* scorers were given the one store that add_texts populated; either scorer is
\* given what create_vector_store returned.
C12_FlagIsMode ==
    /\ StoreNotBuilt => vector_store = "None"
    /\ vector_store = "store" => at_pc = "returned"
    /\ policy_call.called => policy_call.store = vector_store
    /\ impl_call.called => impl_call.store = vector_store
    /\ results.status = "report" =>
         /\ policy_call.called /\ impl_call.called
         /\ results.rag_used <=> (policy_call.store = "store" /\ impl_call.store = "store")
         /\ ~results.rag_used <=> (policy_call.store = "None" /\ impl_call.store = "None")
         /\ StoreNotBuilt => ~results.rag_used
C12_Witness ==
    /\ results.status = "report"
    /\ at_pc = "raised" /\ Len(embeddings) >= 1
    /\ policy_call.store = "None" /\ impl_call.store = "None"
    /\ ~results.rag_used

\* embedding the query fails: the provider raises, or answers with something
\* _extract_query_embedding does not recognise, or with an empty list
QueryEmbeddingFails(qresult) ==
    \/ qresult.shape = "raise"
    \/ ExtractQueryEmbedding(qresult).none
    \/ ExtractQueryEmbedding(qresult).vec = << >>

\* np.dot raises inside _cosine_similarity for some stored embedding
ScoringFails(qresult, embs) ==
    /\ ~QueryEmbeddingFails(qresult)
    /\ LET q == ExtractQueryEmbedding(qresult).vec
       IN  /\ Dot(q, q) # 0
           /\ \E i \in 1..Len(embs) : Dot(embs[i], embs[i]) # 0 /\ Len(embs[i]) # Len(q)

\* C13: a similarity_search call on a populated store in which embedding the
\* query failed, or scoring a stored embedding failed, returned the first k
\* stored chunks in their original order.
C13_SearchFallsBack ==
    (/\ search.called /\ embeddings # << >>
     /\ (QueryEmbeddingFails(search.query) \/ ScoringFails(search.query, embeddings)))
        => search.result = Prefix(chunks, search.k)

\* the similarity the last search gave the chunk at index i (0-based)
SimOf(i) == CosineSimilarity(ExtractQueryEmbedding(search.query).vec, embeddings[i + 1])

\* index i ranks before index j: greater similarity, or the same and i first
RanksBefore(i, j) ==
    \/ SimGreater(SimOf(i), SimOf(j))
    \/ (~SimGreater(SimOf(j), SimOf(i)) /\ i < j)

\* idx lists the best Len(idx) of the indices 0..(n - 1), best first
IsRanking(idx, n) ==
    /\ \A m \in 1..Len(idx) : idx[m] \in 0..(n - 1)
    /\ \A m1, m2 \in 1..Len(idx) : m1 < m2 => RanksBefore(idx[m1], idx[m2])
    /\ \A j \in 0..(n - 1) :
         (\A m \in 1..Len(idx) : idx[m] # j) =>
             \A m \in 1..Len(idx) : RanksBefore(idx[m], j)

\* C14: a similarity_search call whose query embedding succeeded returned
\* the texts of the min(k, N) chunks of greatest cosine similarity to the
\* query, greatest first and chunks of equal similarity by ascending index;
\* the repeated call returned the same texts in the same order.
C14_RankedBySimilarity ==
    (search.called /\ embeddings # << >> /\ ~QueryEmbeddingFails(search.query)) =>
        /\ Len(search.indices) = Min(search.k, Len(chunks))
        /\ IsRanking(search.indices, Len(chunks))
        /\ search.result = [n \in 1..Len(search.indices) |-> chunks[search.indices[n] + 1]]
        /\ search.repeated => search.again = search.result

\* C15: a similarity_search(query, k) call on a store of N chunks returned
\* exactly min(k, N) texts, each the chunk of a distinct stored index,
\* whether it ranked the chunks or fell back to the first k.
C15_ReturnsMinKN ==
    search.called =>
        /\ Len(search.result) = Min(search.k, Len(chunks))
        /\ Len(search.indices) = Len(search.result)
        /\ \A n \in 1..Len(search.indices) :
             /\ search.indices[n] \in 0..(Len(chunks) - 1)
             /\ search.result[n] = chunks[search.indices[n] + 1]
        /\ \A m, n \in 1..Len(search.indices) :
             m # n => search.indices[m] # search.indices[n]
C15_Witness ==
    /\ search.called /\ ~QueryEmbeddingFails(search.query)
    /\ Len(chunks) = 1 /\ Len(embeddings) = 1 /\ search.k = 2
    /\ search.result = <<chunks[1]>>

\* C16: in a second or later add_texts(B) on a store, the embeddings held are
\* those of the chunks of B embedded so far, one each, and nothing of the
\* earlier call; when the call has returned there are exactly len(B) of them.
C16_AddTextsReplaces ==
    (at_calls >= 2 /\ at_pc \in {"loop", "returned"}) =>
        /\ Len(embeddings) = at_i
        /\ at_pc = "returned" => Len(embeddings) = Len(chunks)

\* C17: the embedding call of every pass of the loop of add_texts was followed
\* by a pause, also when the call failed: the long batch delay after the i-th
\* call when i is a multiple of RATE_LIMIT_BATCH_SIZE, the short delay
\* otherwise.
C17_PauseAfterEveryCall ==
    (at_pc \in {"loop", "returned"} /\ at_i >= 1) =>
        at_pause = (IF at_i % RATE_LIMIT_BATCH_SIZE = 0 THEN "long" ELSE "short")

\* C18: a conduct_audit run on an empty text neither chunks nor embeds, scores
\* no section, returns no report, and ends in the failure return.
C18_EmptyTextIsHardFailure ==
    full_text = << >> =>
        /\ at_pc = "idle" /\ chunks = << >> /\ embeddings = << >>
        /\ ~policy_call.called /\ ~impl_call.called
        /\ results.status # "report"
        /\ pc = "done" => results.status = "None"

\* C19: an evidence that _create_audit_evidence returned has a score of type
\* int: a fractional number, a boolean or a numeric string under total_score
\* does not become the score of an evidence.
C19_ScoreIsInteger ==
    (ce_pc = "done" /\ ~ce_out.raised) => ce_out.obj.score.type = "int"

\* the absolute value
Abs(n) == IF n < 0 THEN 0 - n ELSE n

\* C20: the percentage of an evidence that _create_audit_evidence returned is
\* the tenth nearest to score / max_score * 100 (25 of 30 gives 83.3), and
\* 0.0 for max_score 0; the call raises no division error.
C20_PercentageRounded ==
    ce_pc = "done" =>
        LET t == ce_args.total_score.tenths
            m == ce_args.max_score
            p == ce_out.obj.percentage
        IN  /\ ce_out.raised => ce_out.exc.type \in {"ValueError", "TypeError"}
            /\ ~ce_out.raised =>
                 /\ ce_out.obj.score = ce_args.total_score /\ ce_out.obj.max_score = m
                 /\ m = 0 => p = 0
                 /\ m > 0 => 2 * Abs(p * m - 100 * t) <= m
            /\ (ce_args.total_score = JsonInt(25) /\ m = POLICY_ALIGNMENT_MAX_SCORE)
                 => (~ce_out.raised /\ p = 833)
            /\ (ce_args.total_score = JsonInt(0) /\ m = 0) => (~ce_out.raised /\ p = 0)
C20_Witness ==
    /\ ce_pc = "done" /\ ~ce_out.raised
    /\ ce_args.total_score = JsonInt(25)
    /\ ce_args.max_score = POLICY_ALIGNMENT_MAX_SCORE
    /\ ce_out.obj.percentage = 833

\* the chunks of the text of invocation a
OwnChunks(a) == { SessionChunks(sess[a].text)[n] : n \in 1..Len(SessionChunks(sess[a].text)) }

\* C21: of invocations under way at once, no two hold the same store; the
\* store an invocation holds has the chunks of its own text and one embedding
\* for each pass of its own loop; the chunks it retrieves, and the characters
\* of its context, are of its own text.
C21_OwnStore ==
    \A a \in DOMAIN sess :
        /\ \A b \in DOMAIN sess :
             (a # b /\ sess[a].store # 0) => sess[a].store # sess[b].store
        /\ sess[a].store # 0 =>
             /\ heap[sess[a].store].chunks = SessionChunks(sess[a].text)
             /\ Len(heap[sess[a].store].embeddings) = sess[a].i
        /\ sess[a].pc = "done" =>
             /\ \A n \in 1..Len(sess[a].docs) : sess[a].docs[n] \in OwnChunks(a)
             /\ \A n \in 1..Len(sess[a].context) :
                  \/ \E m \in 1..Len(sess[a].text) : sess[a].context[n] = sess[a].text[m]
                  \/ \E m \in 1..Len(Separator) : sess[a].context[n] = Separator[m]
                  \/ sess[a].context = Placeholder
C21_Witness ==
    /\ \A a \in DOMAIN sess : sess[a].pc = "done" /\ Len(sess[a].docs) >= 2
    /\ MaxAudits \in DOMAIN sess /\ sess[MaxAudits].began_beside

\* The entries the current add_texts call has appended that are the zero-vector
\* fallback.  The provider of the model answers with no zero vector, so these
\* are the chunks whose embedding was replaced.
ZeroReplaced ==
    Cardinality({ n \in (Len(embeddings) - at_i + 1)..Len(embeddings) :
                    embeddings[n] = ZeroVector })

\* C22: the failed count add_texts has when it returns is the number of chunks
\* whose embedding was replaced by the zero-vector fallback, whether the
\* provider raised or answered with an unrecognised structure.
C22_FailedCountIsZeroVectors ==
    at_pc = "returned" => failed_count = ZeroReplaced

\* the context of a section's prompt is within the cap; with no store it is the
\* first MAX_CONTEXT_LENGTH characters of the text, with a store the top-K
\* chunks of a search joined by the separator and cut to the cap
ContextAsSpecified(call) ==
    /\ Len(call.context) <= MAX_CONTEXT_LENGTH
    /\ call.store = "None" =>
         call.context = SubSeq(full_text, 1, Min(Len(full_text), MAX_CONTEXT_LENGTH))
    /\ call.store # "None" =>
         \E qresult \in QueryResults :
             call.context =
                 Prefix(Join(SimilaritySearch(chunks, embeddings, qresult, TOP_K_DOCUMENTS)),
                        MAX_CONTEXT_LENGTH)

\* C23: the context in the prompt of either section is at most
\* MAX_CONTEXT_LENGTH characters: the first min(len(full_text),
\* MAX_CONTEXT_LENGTH) characters of full_text with no store, the top-K
\* retrieved chunks joined by the separator and cut to the cap with a store.
C23_ContextWithinCap ==
    /\ policy_call.called => ContextAsSpecified(policy_call)
    /\ impl_call.called => ContextAsSpecified(impl_call)

\* what the scorer assembled for this call was empty: no store and no text, or
\* a store whose search gave nothing
AssembledEmpty(call) ==
    \/ (call.store = "None" /\ full_text = << >>)
    \/ (call.store # "None" /\ (embeddings = << >> \/ chunks = << >>))

\* C24: the context in the prompt of either section is never empty; when
\* what the scorer assembled was empty, it is the fixed 'no relevant content
\* found' sentence, and it is that sentence in no other case.
C24_PlaceholderForEmptyContext ==
    /\ policy_call.called =>
         /\ policy_call.context # << >>
         /\ AssembledEmpty(policy_call) <=> (policy_call.context = Placeholder)
    /\ impl_call.called =>
         /\ impl_call.context # << >>
         /\ AssembledEmpty(impl_call) <=> (impl_call.context = Placeholder)
C24_Witness ==
    /\ full_text = << >>
    /\ policy_call.called /\ policy_call.store = "None" /\ policy_call.context = Placeholder
    /\ impl_call.called /\ impl_call.store = "None" /\ impl_call.context = Placeholder

\* the first required key, in the order total_score, detailed_scores, that a
\* JSON object lacks
FirstMissing(resp) ==
    IF "total_score" \notin resp.keys THEN "total_score" ELSE "detailed_scores"

ParseFailureMark == "JSON parse failed: "

\* what the claim says of the evidence a scorer returned for a response
DiagnosedAs(resp, e, max_score) ==
    /\ (resp.kind = "json_object" /\ ~(RequiredSet \subseteq resp.keys)) =>
         /\ IsFailedEvidence(e, max_score)
         /\ e.reasoning = <<FailurePrefix, "\"", "required key '", FirstMissing(resp),
                            "' is not in the response", "\"">>
    /\ resp.kind = "not_json" =>
         /\ IsFailedEvidence(e, max_score)
         /\ e.reasoning[2] = ParseFailureMark
    /\ resp.kind # "not_json" =>
         \A n \in 1..Len(e.reasoning) : e.reasoning[n] # ParseFailureMark

RECURSIVE PagesText(_)
PagesText(pages) ==
    IF pages = << >> THEN << >>
    ELSE LET last == pages[Len(pages)]
             rest == PagesText(SubSeq(pages, 1, Len(pages) - 1))
         IN  IF last.fails THEN rest ELSE rest \o last.text \o <<"\n">>

\* C26: extract_text_from_pdf on a document that opens does not raise,
\* whichever page extractions fail; after each page the text is that of the
\* pages so far that did not fail, each followed by a newline, in page order;
\* the call returns after the last page with the text of all such pages.
C26_PageFailuresSkipped ==
    (pdf_pc # "off" /\ pdf_opens) =>
        /\ pdf_pc # "raised"
        /\ pdf_pc \in {"loop", "returned"} =>
             pdf_text = PagesText(SubSeq(pdf_pages, 1, pdf_i))
        /\ pdf_pc = "returned" =>
             (pdf_i = Len(pdf_pages) /\ pdf_text = PagesText(pdf_pages))
C26_Witness ==
    /\ pdf_pc = "returned" /\ Len(pdf_pages) = 3
    /\ ~pdf_pages[1].fails /\ pdf_pages[1].text # << >>
    /\ pdf_pages[2].fails
    /\ ~pdf_pages[3].fails /\ pdf_pages[3].text # << >>
    /\ pdf_text = pdf_pages[1].text \o <<"\n">> \o pdf_pages[3].text \o <<"\n">>

\* C27: a step in which similarity_search or get_stats returns leaves the
\* store's chunks and embeddings as they were, whatever the query, k and the
\* provider's answer.
C27_QueriesReadOnly ==
    [][(search' # search \/ stats' # stats) => (chunks' = chunks /\ embeddings' = embeddings)]_vars
C27_Witness ==
    /\ search.called /\ search.repeated
    /\ QueryEmbeddingFails(search.query)
    /\ Len(chunks) = 2 /\ search.k = 1 /\ Len(search.result) = 1
    /\ Len(embeddings) >= 2

\* an entry add_texts can store for a chunk: what the provider returned for
\* it, or the zero vector
ChunkEntries == ProviderVectors \cup {ShortVector, ZeroVector}

\* C29: when the first add_texts call on a fresh store has returned, the
\* store holds exactly one embedding entry per chunk, each of them the
\* provider's vector or the zero vector.
C29_OneEntryPerChunk ==
    (at_pc = "returned" /\ at_calls = 1) =>
        /\ Len(embeddings) = Len(chunks)
        /\ \A i \in 1..Len(embeddings) : embeddings[i] \in ChunkEntries

\* the sections of a results dictionary are those of the two evidences
CompleteReport(r) ==
    /\ r.status = "report"
    /\ policy_call.called /\ impl_call.called
    /\ r.policy = SectionEntry(policy_result) /\ r.impl = SectionEntry(impl_result)
    /\ r.total = policy_result.score + impl_result.score
    /\ r.duration = Duration
    /\ r.rag_used \in BOOLEAN

\* C30: a conduct_audit call that has ended returned either None or a results
\* dictionary with the total, both scored sections, the duration and the RAG
\* flag; a call that has not ended has returned nothing.
C30_ReportOrNone ==
    /\ pc = "done" => CompleteReport(results)
    /\ pc = "except" => results = ReturnedNone
    /\ pc \notin {"done", "except"} => results = Pending
C30_Witness ==
    /\ pc = "except" /\ results = ReturnedNone
    /\ full_text # << >> /\ vector_store = "store"
    /\ ~policy_call.called

\* the steps from one stage of conduct_audit to the next
StageSteps ==
    { <<"start", "indexing">>, <<"start", "policy">>, <<"indexing", "policy">>,
      <<"policy", "impl">>, <<"impl", "aggregate">>, <<"aggregate", "done">> }

\* C28: a conduct_audit run on a non-empty text moves only from a stage to
\* the one that follows it (indexing, with or without a store at its end,
\* then policy scoring, implementation scoring, aggregation), and it
\* eventually ends with a report for which both sections were scored.
C28_TerminatesInStageOrder ==
    /\ [][pc' # pc => <<pc, pc'>> \in StageSteps]_vars
    /\ (pc = "start") ~> (/\ pc = "done" /\ results.status = "report"
                          /\ policy_call.called /\ impl_call.called)
C28_Witness ==
    /\ pc = "done" /\ results.status = "report"
    /\ full_text # << >>
    /\ at_pc = "raised" /\ vector_store = "None"
    /\ llm_log = <<"policy", "impl">>

====
